---- MODULE Spec2Model ----
(***************************************************************************)
(* HMAC signing and verification of rust-jwt, src/algorithm/rust_crypto.rs *)
(*                                                                         *)
(* Texts and byte strings are sequences of byte values (0..255).           *)
(* An Hmac<D> object is a record [key, buf]: the key it was keyed with and *)
(* the bytes fed into it since its last reset.  Objects live in a memory   *)
(* `mem`: the caller's keyed contexts (one per digest type, address = the  *)
(* digest's name) and one stack slot per running call (address = the       *)
(* caller's name).                                                       *)
(*                                                                         *)
(* The digest primitive itself (SHA-2, HMAC) is outside the repository.    *)
(* It is modelled as an ideal MAC: a deterministic function of (digest,    *)
(* key, fed bytes) that yields OutputSize(digest) bytes and has no         *)
(* collisions on the bounded inputs (see Code).                            *)
(***************************************************************************)
EXTENDS Integers, Sequences, FiniteSets, TLC

VARIABLES mem, call, held

vars == <<mem, call, held>>

(* ------------------------------ bounds --------------------------------- *)

\* Len(header) + Len(claims) of a call of the sequential specification
MaxLen == 3
\* the same for the specification with a caller that keeps signatures
MaxReuseLen == 2
\* the same for the specification with two concurrent callers
MaxConcLen == 1

(* --------------------------- plain data -------------------------------- *)

\* the callers; each name is also the address of that caller's frame
Procs == {"t1", "t2"}

Digests == {"Sha256", "Sha384", "Sha512"}

\* the separator left empty
NoSeparator == <<>>

\* crate::SEPARATOR, the text "."
SEPARATOR == <<46>>

\* "A", "B" and "."
Alphabet == {65, 66, 46}
SmallAlphabet == {65, 46}

\* b"secret" shortened, and a second key
Keys == {<<115>>, <<115, 107>>}

\* what the caller may have fed into its context before handing it over
Prefed == {<<>>, <<65, 46>>}

RECURSIVE SeqsUpTo(_, _)
SeqsUpTo(S, n) ==
    IF n = 0 THEN {<<>>}
    ELSE LET shorter == SeqsUpTo(S, n - 1)
         IN  shorter \cup {Append(s, x) : s \in {t \in shorter : Len(t) = n - 1}, x \in S}

\* the <<header, claims>> pairs over alphabet S of total length at most n
Pairs(S, n) ==
    {hc \in SeqsUpTo(S, n) \X SeqsUpTo(S, n) : Len(hc[1]) + Len(hc[2]) <= n}

None == [tag |-> "None", val |-> ""]
Ok(v) == [tag |-> "Ok", val |-> v]
Err(e) == [tag |-> "Err", val |-> e]
Tag(t) == [tag |-> "Tag", val |-> t]

(* ------------------- digest type -> algorithm tag ---------------------- *)

\* a copy-and-paste slip in the second macro line
TypeLevelAlgorithmTypeSlip(d) ==
    CASE d = "Sha256" -> "Hs256"
      [] d = "Sha384" -> "Hs256"
      [] d = "Sha512" -> "Hs512"

\* type_level_algorithm_type!(sha2::Sha256, AlgorithmType::Hs256); ...
TypeLevelAlgorithmType(d) ==
    CASE d = "Sha256" -> "Hs256"
      [] d = "Sha384" -> "Hs384"
      [] d = "Sha512" -> "Hs512"

\* <Hmac<D> as SigningAlgorithm>::algorithm_type(&self): D::algorithm_type()
SigningAlgorithmType(d, hm) == TypeLevelAlgorithmType(d)

\* <Hmac<D> as VerifyingAlgorithm>::algorithm_type(&self): D::algorithm_type()
VerifyingAlgorithmType(d, hm) == TypeLevelAlgorithmType(d)

(* --------------------------- the ideal MAC ----------------------------- *)

\* D::OutputSize in bytes
OutputSize(d) ==
    CASE d = "Sha256" -> 32
      [] d = "Sha384" -> 48
      [] d = "Sha512" -> 64

\* the length-prefixed framing of key and message: distinct (key, message)
\* give distinct frames
Frame(key, msg) == <<Len(key)>> \o key \o <<Len(msg)>> \o msg

\* hmac.result().code(): the MAC of the bytes fed since the last reset.
\* Ideal MAC: OutputSize(d) bytes, a function of digest, key and message
\* only, with no two (key, message) of at most OutputSize(d) - 2 bytes
\* together giving the same code.
Code(d, key, msg) ==
    LET f == Frame(key, msg)
    IN  [i \in 1..OutputSize(d) |->
            ((IF i <= Len(f) THEN f[i] + 1 ELSE 0) + OutputSize(d) + 7 * i) % 256]

\* comparison that stops at the end of the expected code
MacVerifyPrefix(code, sig) ==
    /\ Len(sig) >= Len(code)
    /\ \A i \in 1..Len(code) : sig[i] = code[i]

\* Mac::verify(self, code): Ok(()) iff `sig` has the length of the code and
\* equals it byte for byte (constant-time equality), else Err(MacError)
MacVerify(code, sig) ==
    /\ Len(sig) = Len(code)
    /\ \A i \in 1..Len(code) : sig[i] = code[i]

(* ------------------------------ base64 --------------------------------- *)

\* base64::URL_SAFE_NO_PAD and, for comparison, base64::URL_SAFE
URL_SAFE_NO_PAD == [urlsafe |-> TRUE, pad |-> FALSE]
URL_SAFE == [urlsafe |-> TRUE, pad |-> TRUE]

PadChar == <<61>>

\* the character of the 6-bit value v in the configuration's alphabet
Sym(cfg, v) ==
    IF v < 26 THEN 65 + v
    ELSE IF v < 52 THEN 97 + (v - 26)
    ELSE IF v < 62 THEN 48 + (v - 52)
    ELSE IF v = 62 THEN (IF cfg.urlsafe THEN 45 ELSE 43)
    ELSE (IF cfg.urlsafe THEN 95 ELSE 47)

\* the 6-bit value of character ch, or -1 when ch is not in the alphabet
Val(cfg, ch) ==
    IF ch >= 65 /\ ch <= 90 THEN ch - 65
    ELSE IF ch >= 97 /\ ch <= 122 THEN ch - 97 + 26
    ELSE IF ch >= 48 /\ ch <= 57 THEN ch - 48 + 52
    ELSE IF ch = (IF cfg.urlsafe THEN 45 ELSE 43) THEN 62
    ELSE IF ch = (IF cfg.urlsafe THEN 95 ELSE 47) THEN 63
    ELSE -1

RECURSIVE encode_config(_, _)
\* base64::encode_config(bytes, cfg)
encode_config(b, cfg) ==
    IF Len(b) = 0 THEN <<>>
    ELSE IF Len(b) = 1 THEN
        <<Sym(cfg, b[1] \div 4), Sym(cfg, (b[1] % 4) * 16)>>
        \o (IF cfg.pad THEN PadChar \o PadChar ELSE <<>>)
    ELSE IF Len(b) = 2 THEN
        <<Sym(cfg, b[1] \div 4), Sym(cfg, (b[1] % 4) * 16 + b[2] \div 16),
          Sym(cfg, (b[2] % 16) * 4)>>
        \o (IF cfg.pad THEN PadChar ELSE <<>>)
    ELSE
        <<Sym(cfg, b[1] \div 4), Sym(cfg, (b[1] % 4) * 16 + b[2] \div 16),
          Sym(cfg, (b[2] % 16) * 4 + b[3] \div 64), Sym(cfg, b[3] % 64)>>
        \o encode_config(SubSeq(b, 4, Len(b)), cfg)

RECURSIVE DecodeValid(_, _)
\* the bytes of a text whose characters are all in the alphabet and whose
\* length is not 1 modulo 4
DecodeValid(t, cfg) ==
    LET v(i) == Val(cfg, t[i])
    IN  IF Len(t) = 0 THEN <<>>
        ELSE IF Len(t) = 2 THEN <<v(1) * 4 + v(2) \div 16>>
        ELSE IF Len(t) = 3 THEN
            <<v(1) * 4 + v(2) \div 16, (v(2) % 16) * 16 + v(3) \div 4>>
        ELSE
            <<v(1) * 4 + v(2) \div 16, (v(2) % 16) * 16 + v(3) \div 4,
              (v(3) % 4) * 64 + v(4)>>
            \o DecodeValid(SubSeq(t, 5, Len(t)), cfg)

\* base64::decode_config(text, cfg) for an unpadded configuration:
\* Ok(bytes), or Err for a character outside the alphabet (the padding
\* character included) or an impossible length
decode_config(t, cfg) ==
    IF (\E i \in 1..Len(t) : Val(cfg, t[i]) = -1) \/ Len(t) % 4 = 1
    THEN Err("Base64")
    ELSE Ok(DecodeValid(t, cfg))

(* ------------------------- the calls' state ---------------------------- *)

\* a call that is not running
Idle ==
    [op |-> "none", d |-> "none", header |-> <<>>, claims |-> <<>>, text |-> <<>>,
     sig |-> <<>>, pc |-> "idle", work |-> "none", result |-> None]

\* no signature kept by the caller
NoSig == [d |-> "none", header |-> <<>>, claims |-> <<>>, text |-> <<>>]

\* a call that starts: `text` is the signature as text (verify), `sig` the
\* signature as bytes (verify_bytes; verify fills it in by decoding)
NewCall(op, d, h, c, text, sig, pc) ==
    [op |-> op, d |-> d, header |-> h, claims |-> c, text |-> text, sig |-> sig,
     pc |-> pc, work |-> "none", result |-> None]

\* header || SEPARATOR || claims, the bytes get_hmac_with_data feeds
Message(h, c) == h \o SEPARATOR \o c

\* the digests whose contexts the callers of each specification use
SeqDigests == Digests
ReuseDigests == {"Sha256", "Sha384"}
ConcDigests == {"Sha256"}

\* what the caller of SpecReuse may feed into a context of its own
FedChunk == <<65, 46>>

\* the byte b with one bit (1, 2, 4, ... 128) flipped
FlipBit(b, bit) == IF (b \div bit) % 2 = 1 THEN b - bit ELSE b + bit

\* the signatures handed to verify_bytes: the code itself, the code with a
\* bit flipped, cut short, extended, the empty one, and the codes of the
\* other digests for the same key and message
Signatures(d, key, h, c) ==
    LET m == Code(d, key, Message(h, c))
    IN  {m,
         [m EXCEPT ![1] = FlipBit(m[1], 1)],
         [m EXCEPT ![Len(m)] = FlipBit(m[Len(m)], 128)],
         SubSeq(m, 1, Len(m) - 1),
         Append(m, 0),
         <<>>}
        \cup {Code(e, key, Message(h, c)) : e \in Digests}

(* ------------------------------ Init ----------------------------------- *)

\* the caller's contexts: one Hmac<D> per digest, all keyed with the same
\* non-empty secret (Hmac::new_varkey), possibly already fed some input;
\* no call is running
InitWith(keys, fed) ==
    /\ \E k \in keys, b \in fed :
          mem = [a \in Digests \cup Procs |->
                    IF a \in Digests THEN [key |-> k, buf |-> b] ELSE None]
    /\ call = [p \in Procs |-> Idle]
    /\ held = NoSig

Init == InitWith(Keys, Prefed)

(* ------------------------ get_hmac_with_data --------------------------- *)

\* the context itself is worked on, not a copy
WorkAddrShared(p, d) == d

\* let mut hmac = hmac.clone(): the copy lives in the call's own frame
WorkAddr(p, d) == p

\* the reset is left out
ResetSkipped(hm) == hm

\* hmac.reset(): back to the key-only state
ResetHmac(hm) == [hm EXCEPT !.buf = <<>>]

\* hmac.input(data)
InputHmac(hm, data) == [hm EXCEPT !.buf = @ \o data]

\* get_hmac_with_data as one function of the context: the object it returns
get_hmac_with_data(hm, h, c) ==
    InputHmac(InputHmac(InputHmac(ResetHmac(hm), h), SEPARATOR), c)

\* line 74
Clone(p) ==
    /\ call[p].pc = "clone"
    /\ LET w == WorkAddr(p, call[p].d)
       IN  /\ mem' = [mem EXCEPT ![w] = mem[call[p].d]]
           /\ call' = [call EXCEPT ![p].work = w, ![p].pc = "reset"]
    /\ UNCHANGED held

\* line 75
Reset(p) ==
    /\ call[p].pc = "reset"
    /\ mem' = [mem EXCEPT ![call[p].work] = ResetHmac(@)]
    /\ call' = [call EXCEPT ![p].pc = "header"]
    /\ UNCHANGED held

\* line 76
InputHeader(p) ==
    /\ call[p].pc = "header"
    /\ mem' = [mem EXCEPT ![call[p].work] = InputHmac(@, call[p].header)]
    /\ call' = [call EXCEPT ![p].pc = "separator"]
    /\ UNCHANGED held

\* line 77
InputSeparator(p) ==
    /\ call[p].pc = "separator"
    /\ mem' = [mem EXCEPT ![call[p].work] = InputHmac(@, SEPARATOR)]
    /\ call' = [call EXCEPT ![p].pc = "claims"]
    /\ UNCHANGED held

\* lines 78-79: after the claims the object goes back to sign / verify_bytes
InputClaims(p) ==
    /\ call[p].pc = "claims"
    /\ mem' = [mem EXCEPT ![call[p].work] = InputHmac(@, call[p].claims)]
    /\ call' = [call EXCEPT ![p].pc = "finish"]
    /\ UNCHANGED held

(* --------------------------- sign, verify ------------------------------ *)

\* the padded configuration is used
SignEncodePadded(code) == encode_config(code, URL_SAFE)

\* Ok(base64::encode_config(&code, base64::URL_SAFE_NO_PAD))
SignEncode(code) == encode_config(code, URL_SAFE_NO_PAD)

\* the outcome of the comparison is dropped
VerifyOutcomeIgnored(code, sig) == Ok(TRUE)

\* the comparison accepts a signature that starts with the code
VerifyOutcomePrefix(code, sig) ==
    IF MacVerifyPrefix(code, sig) THEN Ok(TRUE) ELSE Err("MacError")

\* hmac.verify(&signature)?; Ok(true): the `?` returns a failed comparison
\* as the error converted from MacError
VerifyOutcome(code, sig) ==
    IF MacVerify(code, sig) THEN Ok(TRUE) ELSE Err("MacError")

\* sign, lines 45-47: finalize the object (it is consumed) and encode
SignFinish(p) ==
    /\ call[p].pc = "finish"
    /\ call[p].op = "sign"
    /\ LET hm == mem[call[p].work]
           code == Code(call[p].d, hm.key, hm.buf)
       IN  call' = [call EXCEPT ![p].result = Ok(SignEncode(code)), ![p].pc = "done"]
    /\ mem' = [mem EXCEPT ![p] = None]
    /\ UNCHANGED held

\* verify_bytes, lines 63-64: finalize the object and compare
VerifyFinish(p) ==
    /\ call[p].pc = "finish"
    /\ call[p].op \in {"verify_bytes", "verify"}
    /\ LET hm == mem[call[p].work]
           code == Code(call[p].d, hm.key, hm.buf)
       IN  call' = [call EXCEPT ![p].result = VerifyOutcome(code, call[p].sig),
                                ![p].pc = "done"]
    /\ mem' = [mem EXCEPT ![p] = None]
    /\ UNCHANGED held

\* VerifyingAlgorithm::verify (called at line 108): decode the signature
\* text, unpadded URL-safe base64, and hand the bytes to verify_bytes; a
\* text that does not decode is an error of its own
Decode(p) ==
    /\ call[p].pc = "decode"
    /\ LET r == decode_config(call[p].text, URL_SAFE_NO_PAD)
       IN  call' = IF r.tag = "Ok"
                   THEN [call EXCEPT ![p].sig = r.val, ![p].pc = "clone"]
                   ELSE [call EXCEPT ![p].result = r, ![p].pc = "done"]
    /\ UNCHANGED <<mem, held>>

\* algorithm_type(&self) of either trait, lines 39-41 and 57-59
AlgorithmTypeCall(p) ==
    /\ call[p].pc = "tag"
    /\ call' = [call EXCEPT ![p].result =
                   Tag(IF call[p].op = "sign_algorithm_type"
                       THEN SigningAlgorithmType(call[p].d, mem[call[p].d])
                       ELSE VerifyingAlgorithmType(call[p].d, mem[call[p].d])),
                 ![p].pc = "done"]
    /\ UNCHANGED <<mem, held>>

(* ----------------------------- callers --------------------------------- *)

\* the inputs of the three specifications
SeqPairs == Pairs(Alphabet, MaxLen)
ReusePairs == Pairs(SmallAlphabet, MaxReuseLen)
ConcPairs == Pairs(SmallAlphabet, MaxConcLen)

\* sign(&context of d, header, claims)
CallSign(p, digests, pairs) ==
    /\ call[p].pc = "idle"
    /\ \E d \in digests, hc \in pairs :
          call' = [call EXCEPT ![p] =
                      NewCall("sign", d, hc[1], hc[2], <<>>, <<>>, "clone")]
    /\ UNCHANGED <<mem, held>>

\* verify_bytes(&context of d, header, claims, signature) with any of the
\* signatures of Signatures
CallVerifyBytes(p, digests, pairs) ==
    /\ call[p].pc = "idle"
    /\ \E d \in digests, hc \in pairs :
          \E sig \in Signatures(d, mem[d].key, hc[1], hc[2]) :
             call' = [call EXCEPT ![p] =
                         NewCall("verify_bytes", d, hc[1], hc[2], <<>>, sig, "clone")]
    /\ UNCHANGED <<mem, held>>

\* verify(&context of d, header, claims, text) with the signature text the
\* caller holds, or that text with a padding character added
CallVerify(p, digests, pairs) ==
    /\ call[p].pc = "idle"
    /\ held # NoSig
    /\ \E d \in digests, hc \in pairs, text \in {held.text, held.text \o PadChar} :
          call' = [call EXCEPT ![p] =
                      NewCall("verify", d, hc[1], hc[2], text, <<>>, "decode")]
    /\ UNCHANGED <<mem, held>>

\* algorithm_type(&context of d) through either trait
CallAlgorithmType(p, digests) ==
    /\ call[p].pc = "idle"
    /\ \E d \in digests, op \in {"sign_algorithm_type", "verify_algorithm_type"} :
          call' = [call EXCEPT ![p] = NewCall(op, d, <<>>, <<>>, <<>>, <<>>, "tag")]
    /\ UNCHANGED <<mem, held>>

\* between its calls the caller feeds input into a fresh context of its own
\* (Mac::input on the object it owns)
CallerInput(p, digests) ==
    /\ call[p].pc = "idle"
    /\ \E d \in digests :
          /\ mem[d].buf = <<>>
          /\ mem' = [mem EXCEPT ![d] = InputHmac(@, FedChunk)]
    /\ UNCHANGED <<call, held>>

\* the caller takes the result and drops it
Return(p) ==
    /\ call[p].pc = "done"
    /\ call' = [call EXCEPT ![p] = Idle]
    /\ UNCHANGED <<mem, held>>

\* the caller takes the result and keeps the signature text of a sign call
ReturnKeep(p) ==
    /\ call[p].pc = "done"
    /\ call' = [call EXCEPT ![p] = Idle]
    /\ held' = IF call[p].op = "sign" /\ call[p].result.tag = "Ok"
               THEN [d |-> call[p].d, header |-> call[p].header,
                     claims |-> call[p].claims, text |-> call[p].result.val]
               ELSE held
    /\ UNCHANGED mem

(* -------------------------- specifications ----------------------------- *)

\* one caller; every digest; signatures to verify as raw bytes
Next ==
    \/ CallSign("t1", SeqDigests, SeqPairs)
    \/ CallVerifyBytes("t1", SeqDigests, SeqPairs)
    \/ CallAlgorithmType("t1", SeqDigests)
    \/ Clone("t1")
    \/ Reset("t1")
    \/ InputHeader("t1")
    \/ InputSeparator("t1")
    \/ InputClaims("t1")
    \/ SignFinish("t1")
    \/ VerifyFinish("t1")
    \/ AlgorithmTypeCall("t1")
    \/ Return("t1")

Spec == Init /\ [][Next]_vars

\* one caller that keeps the signature text sign returned and verifies it
\* later, in any order, and that may feed its contexts between the calls
InitReuse == InitWith({<<115>>}, {<<>>})

NextReuse ==
    \/ CallSign("t1", ReuseDigests, ReusePairs)
    \/ CallVerify("t1", ReuseDigests, ReusePairs)
    \/ CallerInput("t1", ReuseDigests)
    \/ Decode("t1")
    \/ Clone("t1")
    \/ Reset("t1")
    \/ InputHeader("t1")
    \/ InputSeparator("t1")
    \/ InputClaims("t1")
    \/ SignFinish("t1")
    \/ VerifyFinish("t1")
    \/ ReturnKeep("t1")

SpecReuse == InitReuse /\ [][NextReuse]_vars

\* two callers sharing the contexts, their steps interleaved
InitConc == InitWith({<<115>>}, Prefed)

NextConc ==
    \E p \in Procs :
        \/ CallSign(p, ConcDigests, ConcPairs)
        \/ CallVerifyBytes(p, ConcDigests, ConcPairs)
        \/ Clone(p)
        \/ Reset(p)
        \/ InputHeader(p)
        \/ InputSeparator(p)
        \/ InputClaims(p)
        \/ SignFinish(p)
        \/ VerifyFinish(p)
        \/ Return(p)

SpecConc == InitConc /\ [][NextConc]_vars

(* ------------------------------ claims --------------------------------- *)

IsDone(p, ops) == call[p].pc = "done" /\ call[p].op \in ops

IsOkTrue(r) == r.tag = "Ok" /\ r.val = TRUE

\* the MAC, under the key of the context the call was made on, of the
\* call's header, one "." and the call's claims
ExpectedCode(p) ==
    Code(call[p].d, mem[call[p].d].key, call[p].header \o <<46>> \o call[p].claims)

\* the caller holds the text that sign returned on the same context for the
\* header and claims of p's call, and p's call verifies that text
VerifiesHeld(p) ==
    /\ IsDone(p, {"verify"})
    /\ held # NoSig
    /\ call[p].text = held.text
    /\ call[p].d = held.d

SameInputsAsHeld(p) ==
    /\ call[p].header = held.header
    /\ call[p].claims = held.claims

HasDot(t) == \E i \in 1..Len(t) : t[i] = 46

\* C1: verifying the text sign returned, on the same context with the same
\* header and claims, yields Ok(true), whatever was called or fed before
C1_RoundTrip ==
    \A p \in Procs :
        (VerifiesHeld(p) /\ SameInputsAsHeld(p)) => IsOkTrue(call[p].result)

\* a round trip on a context that holds fed input, with non-empty header
\* and claims
C1_Witness ==
    \E p \in Procs :
        /\ VerifiesHeld(p) /\ SameInputsAsHeld(p)
        /\ IsOkTrue(call[p].result)
        /\ mem[call[p].d].buf # <<>>
        /\ call[p].header # <<>> /\ call[p].claims # <<>>

\* C2: verify_bytes answers a signature that differs from the recomputed
\* code, whatever its length, with Ok(false) and never with an error
C2_MismatchIsOkFalse ==
    \A p \in Procs :
        (IsDone(p, {"verify_bytes"}) /\ call[p].sig # ExpectedCode(p))
            => call[p].result = Ok(FALSE)

\* C3: verify_bytes returns true exactly for the signature that equals the
\* recomputed code byte for byte
C3_TrueIffExact ==
    \A p \in Procs :
        IsDone(p, {"verify_bytes"})
            => (IsOkTrue(call[p].result) <=> call[p].sig = ExpectedCode(p))

\* the code followed by one more byte was handed in and was not accepted
C3_Witness ==
    \E p \in Procs :
        /\ IsDone(p, {"verify_bytes"})
        /\ call[p].sig = Append(ExpectedCode(p), 0)
        /\ ~IsOkTrue(call[p].result)

\* C4: a sign call with the context, header and claims of an earlier sign
\* call returns the text that call returned, whatever calls ran and
\* whatever input the context was fed in between
C4_Deterministic ==
    \A p \in Procs :
        (/\ IsDone(p, {"sign"})
         /\ held # NoSig
         /\ call[p].d = held.d
         /\ SameInputsAsHeld(p))
            => call[p].result = Ok(held.text)

\* the second of two identical sign calls has returned, and the context
\* had been fed input before it
C4_Witness ==
    \E p \in Procs :
        /\ IsDone(p, {"sign"})
        /\ held # NoSig
        /\ call[p].d = held.d
        /\ SameInputsAsHeld(p)
        /\ call[p].header # <<>>
        /\ mem[call[p].d].buf = FedChunk
        /\ call[p].result = Ok(held.text)

\* C5: no step of sign, verify_bytes or algorithm_type changes a context of
\* the caller: key and fed input stay what they were
C5_ContextUnchanged ==
    [][\A d \in Digests : mem'[d] = mem[d]]_vars

\* a failed verify_bytes has returned on a context that still holds the
\* input it was fed before the call
C5_Witness ==
    \E p \in Procs :
        /\ IsDone(p, {"verify_bytes"})
        /\ call[p].result.tag = "Err"
        /\ call[p].header # <<>>
        /\ mem[call[p].d].buf = <<65, 46>>

\* C6: when get_hmac_with_data returns, the object has been fed exactly
\* header, ".", claims; sign returns the unpadded URL-safe base64 text of
\* its code; and the texts signed for ("A","B"), ("A.B","") and ("","A.B")
\* differ from each other
C6_MessageConstruction ==
    \A p \in Procs :
        /\ call[p].pc = "finish" =>
              mem[call[p].work].buf = call[p].header \o <<46>> \o call[p].claims
        /\ IsDone(p, {"sign"}) =>
              /\ call[p].result = Ok(encode_config(ExpectedCode(p), URL_SAFE_NO_PAD))
              /\ \A i \in 1..Len(call[p].result.val) : call[p].result.val[i] # 61
              /\ LET k == mem[call[p].d].key
                     text(m) == encode_config(Code(call[p].d, k, m), URL_SAFE_NO_PAD)
                     AB == <<65, 46, 66>>
                 IN  /\ (call[p].header = <<65>> /\ call[p].claims = <<66>>) =>
                            /\ call[p].result.val # text(AB \o <<46>>)
                            /\ call[p].result.val # text(<<46>> \o AB)
                     /\ (call[p].header = AB /\ call[p].claims = <<>>) =>
                            /\ call[p].result.val # text(AB)
                            /\ call[p].result.val # text(<<46>> \o AB)
                     /\ (call[p].header = <<>> /\ call[p].claims = AB) =>
                            /\ call[p].result.val # text(AB)
                            /\ call[p].result.val # text(AB \o <<46>>)

\* sign("A.B", "") has returned on a context that had been fed input
C6_Witness ==
    \E p \in Procs :
        /\ IsDone(p, {"sign"})
        /\ call[p].header = <<65, 46, 66>>
        /\ call[p].claims = <<>>
        /\ mem[call[p].d].buf # <<>>
        /\ call[p].result.tag = "Ok"

\* the result of p's call run alone on its context
RunAlone(p) ==
    LET hm == get_hmac_with_data(mem[call[p].d], call[p].header, call[p].claims)
        code == Code(call[p].d, hm.key, hm.buf)
    IN  IF call[p].op = "sign" THEN Ok(SignEncode(code))
        ELSE VerifyOutcome(code, call[p].sig)

InFlight(p) == call[p].pc \in {"reset", "header", "separator", "claims", "finish"}

\* C7: with two callers on one context, under every interleaving of their
\* steps, each call works on an object no other call and no context shares,
\* and returns what it returns when run alone
C7_NoInterference ==
    \A p \in Procs :
        /\ IsDone(p, {"sign", "verify_bytes"}) => call[p].result = RunAlone(p)
        /\ InFlight(p) =>
              /\ call[p].work \notin Digests
              /\ \A q \in Procs \ {p} : InFlight(q) => call[q].work # call[p].work

\* one call has returned while the other call, on the same context with
\* another header, is in the middle of feeding its own object
C7_Witness ==
    \E p \in Procs, q \in Procs :
        /\ p # q
        /\ IsDone(p, {"sign"})
        /\ call[q].pc = "claims"
        /\ call[q].d = call[p].d
        /\ call[q].header # call[p].header
        /\ call[p].result = RunAlone(p)

\* C8: the code a SHA-256 context signs with is not accepted by the
\* SHA-384 or SHA-512 context with the same key, header and claims
C8_CrossDigest ==
    \A p \in Procs :
        (/\ IsDone(p, {"verify_bytes"})
         /\ call[p].d \in {"Sha384", "Sha512"}
         /\ call[p].sig = Code("Sha256", mem["Sha256"].key,
                               call[p].header \o <<46>> \o call[p].claims))
            => ~IsOkTrue(call[p].result)

\* the SHA-512 context has answered the SHA-256 code
C8_Witness ==
    \E p \in Procs :
        /\ IsDone(p, {"verify_bytes"})
        /\ call[p].d = "Sha512"
        /\ call[p].sig = Code("Sha256", mem["Sha256"].key,
                              call[p].header \o <<46>> \o call[p].claims)
        /\ ~IsOkTrue(call[p].result)

\* C9: both traits' algorithm_type return Hs256 for SHA-256, Hs384 for
\* SHA-384 and Hs512 for SHA-512, for any key and fed input, and no two
\* digests share a tag
C9_TagBinding ==
    /\ \A p \in Procs :
          IsDone(p, {"sign_algorithm_type", "verify_algorithm_type"}) =>
              call[p].result =
                  Tag(CASE call[p].d = "Sha256" -> "Hs256"
                        [] call[p].d = "Sha384" -> "Hs384"
                        [] call[p].d = "Sha512" -> "Hs512")
    /\ \A d \in Digests, e \in Digests :
          TypeLevelAlgorithmType(d) = TypeLevelAlgorithmType(e) => d = e

\* the verifying trait's algorithm_type has returned for the SHA-384
\* context, which holds fed input
C9_Witness ==
    \E p \in Procs :
        /\ IsDone(p, {"verify_algorithm_type"})
        /\ call[p].d = "Sha384"
        /\ mem[call[p].d].buf # <<>>
        /\ call[p].result = Tag("Hs384")

\* C10: when neither header contains ".", the text signed for one
\* (header, claims) is accepted for another only if the two are the same
C10_Injective ==
    \A p \in Procs :
        (/\ VerifiesHeld(p)
         /\ ~HasDot(call[p].header)
         /\ ~HasDot(held.header)
         /\ IsOkTrue(call[p].result))
            => SameInputsAsHeld(p)

\* the text signed for ("A", "") was handed in for ("", "A") and refused
C10_Witness ==
    \E p \in Procs :
        /\ VerifiesHeld(p)
        /\ held.header = <<65>> /\ held.claims = <<>>
        /\ call[p].header = <<>> /\ call[p].claims = <<65>>
        /\ ~IsOkTrue(call[p].result)

====
